---- MODULE Spec2Model ----
(***************************************************************************)
(* The Strangler Fig proxy (API gateway) of cinema-microservices-migration, *)
(* and its events service (microservices/events).                          *)
(* main() loads the configuration from the environment, builds the three   *)
(* reverse proxies and serves requests through                             *)
(*   LoggingMiddleware(CORSMiddleware(ProxyServer)).                       *)
(* Every request is handled by its own goroutine: a request is one slot of *)
(* reqs, and its handling is split where it blocks (the call into the      *)
(* backend) and where it touches the shared random source.                 *)
(***************************************************************************)
EXTENDS Integers, Sequences, FiniteSets, TLC

VARIABLES
    phase,      \* position of main(): "start", "serving" or "fatal"
    env,        \* the process environment (os.Getenv)
    config,     \* *Config held by the ProxyServer
    ps,         \* the parsed backend URLs held by the ProxyServer
    reqs,       \* the requests: one record per request slot
    rngDraws,   \* how many values ps.rand has produced so far
    trial,      \* one evaluation of the movies routing decision (SpecPolicy)
    direct,     \* one request through a proxy's Director (SpecDirector)
    esMain,     \* events service: position of main()
    esCtx,      \* events service: es.ctx, "live" or "cancelled"
    wg,         \* events service: es.wg, the consumer goroutines not yet done
    topics,     \* Kafka: the messages of each topic, in offset order
    consumers,  \* events service: one consumeMessages goroutine per topic
    posts       \* events service: the HTTP requests, one record per slot

\* the gateway process
gwVars == <<phase, env, config, ps, reqs, rngDraws, trial, direct>>

\* the events service process and its Kafka topics
esVars == <<esMain, esCtx, wg, topics, consumers, posts>>

vars == <<gwVars, esVars>>

----------------------------------------------------------------------------
(* Bounds *)

\* number of requests the clients send
MaxRequests == 2

\* how far below 0 and above 100 the percentages of SpecPolicy range
PercentMargin == 2

\* number of HTTP requests the clients of the events service send
MaxPosts == 1

\* number of messages other producers write to the topics
MaxForeign == 1

\* number of failed reads the Kafka readers report, all topics together
MaxReadErrors == 1

\* number of unread messages in the topics when the shutdown is looked at
MaxBacklog == 1

----------------------------------------------------------------------------
(* Program constants *)

StatusCreated == 201

StatusBadRequest == 400

StatusMethodNotAllowed == 405

StatusInternalServerError == 500

\* ps.rand.Intn(100)
DrawRange == 100

StatusOK == 200

StatusBadGateway == 502

\* migrationPercent := 50
DefaultMigrationPercent == 50

----------------------------------------------------------------------------
(* Strings the code looks into are sequences of characters *)

HealthPath == <<"/","h","e","a","l","t","h">>

EventsPrefix == <<"/","a","p","i","/","e","v","e","n","t","s">>

MoviesPrefix == <<"/","a","p","i","/","m","o","v","i","e","s">>

\* request paths the clients send
Paths ==
    { HealthPath,
      HealthPath \o <<"z">>,
      EventsPrefix,
      EventsPrefix \o <<"/","m","o","v","i","e">>,
      MoviesPrefix,
      MoviesPrefix \o <<"X">>,
      <<"/","a","p","i","/","u","s","e","r","s">>,
      <<"/","A","P","I","/","m","o","v","i","e","s">> }

\* request methods the clients send
Methods == {"GET", "OPTIONS"}

\* values of MOVIES_MIGRATION_PERCENT: unset, not a number, and numbers
PercentStrings ==
    { <<>>,
      <<"a","b","c">>,
      <<"-","5">>,
      <<"0">>,
      <<"5","0">>,
      <<"1","0","0">>,
      <<"1","5","0">> }

\* status codes the backends answer with
BackendStatuses == {200, 404}

\* values of GRADUAL_MIGRATION
FlagStrings == {"", "true", "false"}

\* a value url.Parse rejects (missing protocol scheme)
BadURL == "://bad"

\* values of the three *_URL variables: unset, or rejected by url.Parse
URLStrings == {"", BadURL}

Environments ==
    [ PORT : {""},
      MONOLITH_URL : URLStrings,
      MOVIES_SERVICE_URL : URLStrings,
      EVENTS_SERVICE_URL : URLStrings,
      GRADUAL_MIGRATION : FlagStrings,
      MOVIES_MIGRATION_PERCENT : PercentStrings ]

\* base URLs of a backend: bare, with a trailing slash, behind a path prefix,
\* with a query
DirectorTargets ==
    { "http://localhost:8080",
      "http://monolith:8080/",
      "http://monolith:8080/v1",
      "http://monolith:8080/v1/",
      "http://monolith:8080?tenant=a" }

\* inbound requests as the server hands them to the Director: Host header,
\* and a URL with path and query only
DirectorRequests ==
    [ Host : {"gateway:8000"},
      Scheme : {""},
      URLHost : {""},
      Path : {"/", "/health", "/api/users", "/api/movies", "/api/events/movie"},
      RawQuery : {"", "page=2", "a=1&b=2"} ]

\* a host:port written without "http://", as an operator may set it
NoSchemeURL == "localhost:8080"

\* values of the three *_URL variables at startup (SpecStartup)
StartupURLStrings == {"", BadURL, NoSchemeURL}

StartupEnvironments ==
    [ PORT : {""},
      MONOLITH_URL : StartupURLStrings,
      MOVIES_SERVICE_URL : StartupURLStrings,
      EVENTS_SERVICE_URL : StartupURLStrings,
      GRADUAL_MIGRATION : {"true"},
      MOVIES_MIGRATION_PERCENT : {<<>>} ]

----------------------------------------------------------------------------
(* Library functions the code calls *)

\* a prefix test that compares the first five characters only
HasPrefixShort(s, prefix) ==
    /\ Len(s) >= 5
    /\ SubSeq(s, 1, 5) = SubSeq(prefix, 1, 5)

\* strings.HasPrefix
HasPrefix(s, prefix) ==
    /\ Len(s) >= Len(prefix)
    /\ SubSeq(s, 1, Len(prefix)) = prefix

Digits == {"0","1","2","3","4","5","6","7","8","9"}

DigitVal(c) ==
    CASE c = "0" -> 0 [] c = "1" -> 1 [] c = "2" -> 2 [] c = "3" -> 3
      [] c = "4" -> 4 [] c = "5" -> 5 [] c = "6" -> 6 [] c = "7" -> 7
      [] c = "8" -> 8 [] c = "9" -> 9

RECURSIVE DigitsVal(_)
DigitsVal(ds) ==
    IF ds = <<>> THEN 0
    ELSE DigitsVal(SubSeq(ds, 1, Len(ds) - 1)) * 10 + DigitVal(ds[Len(ds)])

\* strconv.Atoi: an optional sign, then one or more decimal digits
Atoi(s) ==
    LET signed == s # <<>> /\ s[1] \in {"+", "-"}
        ds     == IF signed THEN Tail(s) ELSE s
        ok     == ds # <<>> /\ \A k \in 1..Len(ds) : ds[k] \in Digits
    IN  IF ~ok THEN [err |-> TRUE, val |-> 0]
        ELSE [err |-> FALSE,
              val |-> IF signed /\ s[1] = "-" THEN 0 - DigitsVal(ds)
                      ELSE DigitsVal(ds)]

DigitChar(d) ==
    CASE d = 0 -> "0" [] d = 1 -> "1" [] d = 2 -> "2" [] d = 3 -> "3"
      [] d = 4 -> "4" [] d = 5 -> "5" [] d = 6 -> "6" [] d = 7 -> "7"
      [] d = 8 -> "8" [] d = 9 -> "9"

RECURSIVE NatDecimal(_)
NatDecimal(n) ==
    IF n < 10 THEN <<DigitChar(n)>>
    ELSE NatDecimal(n \div 10) \o <<DigitChar(n % 10)>>

\* the decimal text of an integer, as an operator writes it in the environment
Decimal(n) == IF n < 0 THEN <<"-">> \o NatDecimal(0 - n) ELSE NatDecimal(n)

Letters ==
    {"a","b","c","d","e","f","g","h","i","j","k","l","m",
     "n","o","p","q","r","s","t","u","v","w","x","y","z"}

CharAt(s, k) == SubSeq(s, k, k)

\* strings.Index for a single character: its first position in s, 0 if none
IndexOf(s, c) ==
    LET hits == { k \in 1..Len(s) : CharAt(s, k) = c }
    IN  IF hits = {} THEN 0
        ELSE CHOOSE k \in hits : \A h \in hits : k <= h

\* url.getScheme: letters (after the first character also digits, + - .) up
\* to a colon are the scheme; a leading colon is an error; anything else
\* means the text has no scheme
getScheme(rawURL) ==
    LET stops == { k \in 1..Len(rawURL) :
                     /\ CharAt(rawURL, k) \notin Letters
                     /\ \/ k = 1
                        \/ CharAt(rawURL, k) \notin Digits \cup {"+", "-", "."} }
        stop  == IF stops = {} THEN 0
                 ELSE CHOOSE k \in stops : \A h \in stops : k <= h
    IN  IF stop = 0 \/ CharAt(rawURL, stop) # ":"
          THEN [err |-> FALSE, scheme |-> "", rest |-> rawURL]
        ELSE IF stop = 1
          THEN [err |-> TRUE, scheme |-> "", rest |-> ""]
        ELSE [err |-> FALSE,
              scheme |-> SubSeq(rawURL, 1, stop - 1),
              rest |-> SubSeq(rawURL, stop + 1, Len(rawURL))]

\* url.validOptionalPort applied to a host[:port] authority
validAuthority(authority) ==
    LET c == IndexOf(authority, ":")
    IN  c = 0 \/ \A k \in (c + 1)..Len(authority) : CharAt(authority, k) \in Digits

\* the URL url.Parse returns when it fails
NoURL ==
    [err |-> TRUE, Scheme |-> "", Opaque |-> "", Host |-> "",
     Path |-> "", RawQuery |-> ""]

\* url.Parse for texts in lower case without fragment or user information:
\* scheme, then the query after the first "?", then either an opaque rest, or
\* "//" authority and the path
urlParse(rawURL) ==
    LET s     == getScheme(rawURL)
        q     == IndexOf(s.rest, "?")
        rest  == IF q = 0 THEN s.rest ELSE SubSeq(s.rest, 1, q - 1)
        query == IF q = 0 THEN "" ELSE SubSeq(s.rest, q + 1, Len(s.rest))
        slash == IndexOf(rest, "/")
        seg   == IF slash = 0 THEN rest ELSE SubSeq(rest, 1, slash - 1)
        auth  == /\ Len(rest) >= 2 /\ SubSeq(rest, 1, 2) = "//"
                 /\ s.scheme # "" \/ ~(Len(rest) >= 3 /\ SubSeq(rest, 1, 3) = "///")
        after == SubSeq(rest, 3, Len(rest))
        cut   == IndexOf(after, "/")
        authority == IF cut = 0 THEN after ELSE SubSeq(after, 1, cut - 1)
        path  == IF cut = 0 THEN "" ELSE SubSeq(after, cut, Len(after))
    IN  IF s.err THEN NoURL
        ELSE IF slash # 1 /\ s.scheme # ""
          THEN [err |-> FALSE, Scheme |-> s.scheme, Opaque |-> rest,
                Host |-> "", Path |-> "", RawQuery |-> query]
        ELSE IF slash # 1 /\ IndexOf(seg, ":") # 0
          THEN NoURL
        ELSE IF auth /\ ~validAuthority(authority)
          THEN NoURL
        ELSE IF auth
          THEN [err |-> FALSE, Scheme |-> s.scheme, Opaque |-> "",
                Host |-> authority, Path |-> path, RawQuery |-> query]
        ELSE [err |-> FALSE, Scheme |-> s.scheme, Opaque |-> "",
              Host |-> "", Path |-> rest, RawQuery |-> query]

\* url.Parse: does it return an error
urlParseFails(u) == urlParse(u).err

----------------------------------------------------------------------------
(* Configuration *)

\* the zero value of Config
ZeroConfig ==
    [ Port |-> "",
      MonolithURL |-> "",
      MoviesServiceURL |-> "",
      EventsServiceURL |-> "",
      GradualMigration |-> FALSE,
      MoviesMigrationPercent |-> 0 ]

orDefault(v, d) == IF v = "" THEN d ELSE v

\* loadConfig: the percentage, 50 unless MOVIES_MIGRATION_PERCENT is a number
migrationPercentOf(percentStr) ==
    LET a == Atoi(percentStr)
    IN  IF percentStr # <<>> /\ ~a.err THEN a.val ELSE DefaultMigrationPercent

loadConfig(e) ==
    [ Port |-> orDefault(e.PORT, "8000"),
      MonolithURL |-> orDefault(e.MONOLITH_URL, "http://localhost:8080"),
      MoviesServiceURL |-> orDefault(e.MOVIES_SERVICE_URL, "http://localhost:8081"),
      EventsServiceURL |-> orDefault(e.EVENTS_SERVICE_URL, "http://localhost:8082"),
      GradualMigration |-> (e.GRADUAL_MIGRATION = "true"),
      MoviesMigrationPercent |-> migrationPercentOf(e.MOVIES_MIGRATION_PERCENT) ]

\* NewProxyServer: does it return an error
NewProxyServerFails(c) ==
    \/ urlParseFails(c.MonolithURL)
    \/ urlParseFails(c.MoviesServiceURL)
    \/ urlParseFails(c.EventsServiceURL)

\* no ProxyServer: NewProxyServer returned nil
NoProxyServer ==
    [monolithURL |-> NoURL, moviesURL |-> NoURL, eventsURL |-> NoURL]

\* NewProxyServer: the three URLs parsed, nil when one of them is rejected
NewProxyServer(c) ==
    IF NewProxyServerFails(c) THEN NoProxyServer
    ELSE [ monolithURL |-> urlParse(c.MonolithURL),
           moviesURL |-> urlParse(c.MoviesServiceURL),
           eventsURL |-> urlParse(c.EventsServiceURL) ]

----------------------------------------------------------------------------
(* One request and its response writer *)

NoBody == [kind |-> "none", text |-> "", fields |-> {}]

TextBody(t) == [kind |-> "text", text |-> t, fields |-> {}]

\* json.NewEncoder(w).Encode(map[string]string{...}): an object of the pairs
JSONBody(pairs) == [kind |-> "json", text |-> "", fields |-> pairs]

\* the backend's own response body, relayed
RelayedBody == [kind |-> "relayed", text |-> "", fields |-> {}]

HealthText == "Strangler Fig Proxy is healthy"

CORSHeaders ==
    { <<"Access-Control-Allow-Origin", "*">>,
      <<"Access-Control-Allow-Methods", "GET, POST, PUT, DELETE, OPTIONS">>,
      <<"Access-Control-Allow-Headers", "Content-Type, Authorization">> }

Backends == {"monolith", "movies", "events"}

\* a slot no request has arrived in yet
IdleRequest ==
    [ pc |-> "idle",
      method |-> "",
      path |-> <<>>,
      handler |-> "none",     \* who wrote the response
      backend |-> "none",     \* the proxy whose ServeHTTP was called
      conn |-> "none",        \* outcome of the call into the backend
      calls |-> <<>>,         \* the backends a round trip was made to, in order
      drew |-> FALSE,         \* did this request call ps.rand.Intn
      headers |-> {},         \* response headers set
      status |-> 0,           \* status code sent to the client, 0: none yet
      body |-> NoBody,        \* response body sent to the client
      statusCode |-> 0,       \* loggingResponseWriter.statusCode
      logged |-> <<>>,        \* statuses of the access-log entries written
      raced |-> FALSE ]       \* its call of ps.rand.Intn overlapped another

\* a response writer that passes the status code on without keeping it
WriteHeaderThrough(q, code) == [q EXCEPT !.status = code]

\* loggingResponseWriter.WriteHeader
WriteHeader(q, code) == [q EXCEPT !.statusCode = code, !.status = code]

\* ProxyServer.handleHealth
handleHealth(q) ==
    LET h == [q EXCEPT !.headers = @ \cup {<<"Content-Type", "text/plain">>}]
    IN  [WriteHeader(h, StatusOK) EXCEPT !.body = TextBody(HealthText),
                                         !.handler = "health"]

\* ServeHTTP without its events branch
ServeHTTPNoEvents(q) ==
    IF q.path = HealthPath
    THEN [handleHealth(q) EXCEPT !.pc = "return"]
    ELSE IF HasPrefix(q.path, MoviesPrefix)
    THEN [q EXCEPT !.pc = "route"]
    ELSE [q EXCEPT !.backend = "monolith", !.pc = "forward"]

\* ServeHTTP without its health branch
ServeHTTPNoHealth(q) ==
    IF HasPrefix(q.path, EventsPrefix)
    THEN [q EXCEPT !.backend = "events", !.pc = "forward"]
    ELSE IF HasPrefix(q.path, MoviesPrefix)
    THEN [q EXCEPT !.pc = "route"]
    ELSE [q EXCEPT !.backend = "monolith", !.pc = "forward"]

\* ServeHTTP matching whole path segments: a prefix counts only when the
\* path ends there or goes on with "/"
ServeHTTPSegments(q) ==
    LET under(prefix) ==
            /\ HasPrefix(q.path, prefix)
            /\ (Len(q.path) = Len(prefix) \/ q.path[Len(prefix) + 1] = "/")
    IN  IF q.path = HealthPath
        THEN [handleHealth(q) EXCEPT !.pc = "return"]
        ELSE IF under(EventsPrefix)
        THEN [q EXCEPT !.backend = "events", !.pc = "forward"]
        ELSE IF under(MoviesPrefix)
        THEN [q EXCEPT !.pc = "route"]
        ELSE [q EXCEPT !.backend = "monolith", !.pc = "forward"]

\* ProxyServer.ServeHTTP up to the call of shouldRouteToNewService or of a
\* proxy's ServeHTTP
ServeHTTP(q) ==
    IF q.path = HealthPath
    THEN [handleHealth(q) EXCEPT !.pc = "return"]
    ELSE IF HasPrefix(q.path, EventsPrefix)
    THEN [q EXCEPT !.backend = "events", !.pc = "forward"]
    ELSE IF HasPrefix(q.path, MoviesPrefix)
    THEN [q EXCEPT !.pc = "route"]
    ELSE [q EXCEPT !.backend = "monolith", !.pc = "forward"]

\* CORSMiddleware that passes OPTIONS on to the next handler
CORSMiddlewareNoShortCircuit(q) ==
    ServeHTTP([q EXCEPT !.headers = @ \cup CORSHeaders])

\* CORSMiddleware
CORSMiddleware(q) ==
    LET h == [q EXCEPT !.headers = @ \cup CORSHeaders]
    IN  IF q.method = "OPTIONS"
        THEN [WriteHeader(h, StatusOK) EXCEPT !.handler = "cors", !.pc = "return"]
        ELSE ServeHTTP(h)

\* LoggingMiddleware, before next.ServeHTTP
LoggingMiddlewareEnter(method, path) ==
    [IdleRequest EXCEPT !.method = method, !.path = path,
                        !.statusCode = StatusOK]

\* LoggingMiddleware, after next.ServeHTTP has returned
LoggingMiddlewareLeave(q) ==
    IF q.pc = "return"
    THEN [q EXCEPT !.pc = "done", !.logged = Append(@, q.statusCode)]
    ELSE q

\* shouldRouteToNewService comparing with <= instead of <
shouldRouteOffByOne(c) ==
    IF ~c.GradualMigration
    THEN { [drew |-> FALSE, r |-> -1, result |-> TRUE] }
    ELSE { [drew |-> TRUE, r |-> r, result |-> (r <= c.MoviesMigrationPercent)]
           : r \in 0..(DrawRange - 1) }

\* shouldRouteToNewService drawing from 1..100 instead of 0..99
shouldRouteShort(c) ==
    IF ~c.GradualMigration
    THEN { [drew |-> FALSE, r |-> -1, result |-> TRUE] }
    ELSE { [drew |-> TRUE, r |-> r, result |-> (r + 1 < c.MoviesMigrationPercent)]
           : r \in 0..(DrawRange - 1) }

\* shouldRouteToNewService without its GradualMigration test
shouldRouteAlwaysDraws(c) ==
    { [drew |-> TRUE, r |-> r, result |-> (r < c.MoviesMigrationPercent)]
      : r \in 0..(DrawRange - 1) }

\* ProxyServer.shouldRouteToNewService, as the set of its possible runs:
\* without gradual migration it returns true and draws nothing; with it,
\* it draws r from 0..99 and returns r < percent
shouldRouteToNewService(c) ==
    IF ~c.GradualMigration
    THEN { [drew |-> FALSE, r |-> -1, result |-> TRUE] }
    ELSE { [drew |-> TRUE, r |-> r, result |-> (r < c.MoviesMigrationPercent)]
           : r \in 0..(DrawRange - 1) }

\* the movies branch of ServeHTTP: which proxy gets the request
moviesTarget(result) == IF result THEN "movies" ELSE "monolith"

\* an error handler answering 500 with a plain-text body
ErrorHandlerPlain(q) ==
    [WriteHeader(q, 500) EXCEPT !.body = TextBody("Service temporarily unavailable"),
                                !.handler = "errorHandler"]

\* proxy.ErrorHandler of createReverseProxy
ErrorHandler(q) ==
    [WriteHeader(q, StatusBadGateway) EXCEPT
        !.body = JSONBody({<<"error", "Service temporarily unavailable">>}),
        !.handler = "errorHandler"]

\* what the transport's round trip to a backend can end in: an error
\* (connection refused) or the backend's response
RoundTrips ==
    { [err |-> TRUE, status |-> 0] }
        \cup { [err |-> FALSE, status |-> s] : s \in BackendStatuses }

\* ps.monolithURL, ps.moviesURL, ps.eventsURL: the parsed URL a proxy was
\* created with
targetURL(p, backend) ==
    CASE backend = "monolith" -> p.monolithURL
      [] backend = "movies" -> p.moviesURL
      [] backend = "events" -> p.eventsURL

\* the round trips the transport can make to a target: it connects only for
\* the schemes http and https and a host, and fails for every other target
RoundTripsTo(target) ==
    IF target.Scheme \in {"http", "https"} /\ target.Host # ""
    THEN RoundTrips
    ELSE { rt \in RoundTrips : rt.err }

HasSuffix(s, suffix) ==
    /\ Len(s) >= Len(suffix)
    /\ SubSeq(s, Len(s) - Len(suffix) + 1, Len(s)) = suffix

\* httputil.singleJoiningSlash
singleJoiningSlash(a, b) ==
    LET aslash == HasSuffix(a, "/")
        bslash == HasPrefix(b, "/")
    IN  IF aslash /\ bslash THEN a \o SubSeq(b, 2, Len(b))
        ELSE IF ~aslash /\ ~bslash THEN a \o "/" \o b
        ELSE a \o b

\* the Director NewSingleHostReverseProxy(target) installs: scheme and host
\* of the target, the target's path joined with the request's, the target's
\* query before the request's
originalDirector(target, req) ==
    [req EXCEPT
       !.Scheme = target.Scheme,
       !.URLHost = target.Host,
       !.Path = singleJoiningSlash(target.Path, req.Path),
       !.RawQuery = IF target.RawQuery = "" \/ req.RawQuery = ""
                    THEN target.RawQuery \o req.RawQuery
                    ELSE target.RawQuery \o "&" \o req.RawQuery]

\* proxy.Director of createReverseProxy: originalDirector, then req.Host,
\* req.URL.Host and req.URL.Scheme from the target
Director(target, req) ==
    [originalDirector(target, req) EXCEPT
       !.Host = target.Host,
       !.URLHost = target.Host,
       !.Scheme = target.Scheme]

\* a reverse proxy that sends a request the movies service refused on to the
\* monolith
proxyServeHTTPFallback(q, rt) ==
    LET c == [q EXCEPT !.conn = IF rt.err THEN "refused" ELSE "ok",
                       !.calls = Append(@, q.backend),
                       !.pc = "return"]
    IN  IF rt.err /\ q.backend = "movies"
        THEN [c EXCEPT !.backend = "monolith", !.conn = "none", !.pc = "forward"]
        ELSE IF rt.err
        THEN ErrorHandler(c)
        ELSE [WriteHeader(c, rt.status) EXCEPT !.body = RelayedBody,
                                               !.handler = "proxy"]

\* httputil.ReverseProxy.ServeHTTP: the round trip to the target; a failed
\* round trip ends in ErrorHandler, a response is copied to the client
proxyServeHTTP(q, rt) ==
    LET c == [q EXCEPT !.conn = IF rt.err THEN "refused" ELSE "ok",
                       !.calls = Append(@, q.backend),
                       !.pc = "return"]
    IN  IF rt.err
        THEN ErrorHandler(c)
        ELSE [WriteHeader(c, rt.status) EXCEPT !.body = RelayedBody,
                                               !.handler = "proxy"]

----------------------------------------------------------------------------
(* The events service (microservices/events): three HTTP handlers publish   *)
(* events to Kafka topics, and one consumer goroutine per topic reads its  *)
(* topic and logs what it reads.                                           *)

\* topics := []string{"movie-events", "user-events", "payment-events"}
Topics == {"movie-events", "user-events", "payment-events"}

\* the handlers, by the last element of their route /api/events/...
Endpoints == {"movie", "user", "payment"}

\* the topic a handler publishes to
topicOf(endpoint) ==
    CASE endpoint = "movie" -> "movie-events"
      [] endpoint = "user" -> "user-events"
      [] endpoint = "payment" -> "payment-events"

\* request methods the clients of the events service send
PostMethods == {"POST", "GET"}

\* request bodies: the first JSON value in the body (an object for the
\* handler's event type, or text that is not JSON), and whether more text
\* that is not JSON follows it
Bodies ==
    { [value |-> "object", trailing |-> FALSE],
      [value |-> "object", trailing |-> TRUE],
      [value |-> "malformed", trailing |-> FALSE] }

\* json.NewDecoder(r.Body).Decode(&event): reads the next JSON value of the
\* body and stops there; what follows the value is not read
Decode(body) == [err |-> body.value # "object"]

\* producer.WriteMessages: the message is written, or an error is returned
WriteOutcomes == {"ok", "failed"}

\* a message as Kafka stores it: the key is the event ID (0: not from this
\* service), the value is the JSON of an Event or something else
EventMessage(id) == [key |-> id, isEvent |-> TRUE]

ForeignMessage == [key |-> 0, isEvent |-> FALSE]

\* json.Unmarshal(msg.Value, &event)
Unmarshal(msg) == [err |-> ~msg.isEvent]

\* a slot no request has arrived in yet
IdlePost ==
    [ pc |-> "idle",
      endpoint |-> "",
      method |-> "",
      body |-> [value |-> "", trailing |-> FALSE],   \* the body, once read
      write |-> "none",        \* outcome of WriteMessages, "none": not called
      status |-> 0,            \* status code sent to the client
      responseStatus |-> "" ]  \* EventResponse.Status

\* PublishEvent: the producer's WriteMessages under es.ctx; a cancelled
\* context fails the write
PublishEvent(ctx, outcome) ==
    IF ctx = "cancelled" THEN "failed" ELSE outcome

\* handleMovieEvent, handleUserEvent, handlePaymentEvent: 405 unless POST,
\* 400 when the body does not decode, 500 when PublishEvent fails, else 201
\* with EventResponse{Status: "success"}
handleEvent(endpoint, method, body, ctx, outcome) ==
    LET m == [IdlePost EXCEPT !.pc = "done", !.endpoint = endpoint,
                              !.method = method]
        p == [m EXCEPT !.body = body]
    IN  IF method # "POST"
          THEN [m EXCEPT !.status = StatusMethodNotAllowed]
        ELSE IF Decode(body).err
          THEN [p EXCEPT !.status = StatusBadRequest]
        ELSE IF PublishEvent(ctx, outcome) = "failed"
          THEN [p EXCEPT !.write = "failed", !.status = StatusInternalServerError]
        ELSE [p EXCEPT !.write = "ok", !.status = StatusCreated,
                       !.responseStatus = "success"]

\* a consumeMessages goroutine blocked in its first ReadMessage
StartedConsumer ==
    [ pc |-> "read",
      offset |-> 0,          \* messages read so far
      processed |-> {},      \* keys of the events logged as processed
      parseErrors |-> 0,     \* messages logged as not parseable
      readErrors |-> 0 ]     \* failed reads logged

\* NewEventService has returned and main listens: empty topics, the three
\* consumers started
EventServiceStarted ==
    /\ esMain = "serving"
    /\ esCtx = "live"
    /\ wg = Cardinality(Topics)
    /\ topics = [t \in Topics |-> <<>>]
    /\ consumers = [t \in Topics |-> StartedConsumer]
    /\ posts = [i \in 1..MaxPosts |-> IdlePost]

\* failed reads logged so far
RECURSIVE ReadErrorsOf(_, _)
ReadErrorsOf(cs, ts) ==
    IF ts = {} THEN 0
    ELSE LET t == CHOOSE u \in ts : TRUE
         IN  cs[t].readErrors + ReadErrorsOf(cs, ts \ {t})

\* one request to one of the three handlers, from arrival to response; the
\* slots are used in order
Post(i) ==
    /\ esMain = "serving"
    /\ posts[i].pc = "idle"
    /\ \A j \in 1..(i - 1) : posts[j].pc = "done"
    /\ \E endpoint \in Endpoints, method \in PostMethods, body \in Bodies,
          outcome \in WriteOutcomes :
         LET p == handleEvent(endpoint, method, body, esCtx, outcome) IN
         /\ posts' = [posts EXCEPT ![i] = p]
         /\ topics' = IF p.write = "ok"
                       THEN [topics EXCEPT ![topicOf(endpoint)] =
                                Append(@, EventMessage(i))]
                       ELSE topics
    /\ UNCHANGED <<gwVars, esMain, esCtx, wg, consumers>>

\* another producer writes a message that is not an Event to a topic
Foreign(t) ==
    /\ esMain # "closed"
    /\ Cardinality({ <<u, k>> \in Topics \X (1..(MaxPosts + MaxForeign)) :
                        k <= Len(topics[u]) /\ ~topics[u][k].isEvent }) < MaxForeign
    /\ topics' = [topics EXCEPT ![t] = Append(@, ForeignMessage)]
    /\ UNCHANGED <<gwVars, esMain, esCtx, wg, consumers, posts>>

\* consumeMessages, the select at the head of the loop: return when es.ctx
\* is done, else block in ReadMessage
select(c, ctx) ==
    [c EXCEPT !.pc = IF ctx = "cancelled" THEN "exited" ELSE "read"]

\* wg.Done() of a goroutine that has returned
wgDone(c, n) == IF c.pc = "exited" THEN n - 1 ELSE n

\* consumeMessages: ReadMessage returns the next message of the topic; it
\* is logged, and logged as processed when it parses as an Event; then the
\* loop goes round
ConsumerMessage(t) ==
    /\ consumers[t].pc = "read"
    /\ consumers[t].offset < Len(topics[t])
    /\ LET msg == topics[t][consumers[t].offset + 1]
           c   == [consumers[t] EXCEPT
                     !.offset = @ + 1,
                     !.processed = IF Unmarshal(msg).err THEN @ ELSE @ \cup {msg.key},
                     !.parseErrors = IF Unmarshal(msg).err THEN @ + 1 ELSE @]
       IN  /\ consumers' = [consumers EXCEPT ![t] = select(c, esCtx)]
           /\ wg' = wgDone(select(c, esCtx), wg)
    /\ UNCHANGED <<gwVars, esMain, esCtx, topics, posts>>

\* a consumer whose read takes no notice of the cancelled context
ConsumerCanceledIgnored(t) ==
    /\ consumers[t].pc = "read"
    /\ esCtx = "cancelled"
    /\ UNCHANGED <<gwVars, esVars>>

\* consumeMessages: ReadMessage returns context.Canceled, the goroutine
\* returns
ConsumerCanceled(t) ==
    /\ consumers[t].pc = "read"
    /\ esCtx = "cancelled"
    /\ consumers' = [consumers EXCEPT ![t].pc = "exited"]
    /\ wg' = wg - 1
    /\ UNCHANGED <<gwVars, esMain, esCtx, topics, posts>>

\* a consumer that returns when a read fails
ConsumerReadErrorReturns(t) ==
    /\ consumers[t].pc = "read"
    /\ ReadErrorsOf(consumers, Topics) < MaxReadErrors
    /\ consumers' = [consumers EXCEPT ![t].pc = "exited",
                                      ![t].readErrors = @ + 1]
    /\ wg' = wg - 1
    /\ UNCHANGED <<gwVars, esMain, esCtx, topics, posts>>

\* consumeMessages: ReadMessage returns another error; it is logged and the
\* loop goes round
ConsumerReadError(t) ==
    /\ consumers[t].pc = "read"
    /\ ReadErrorsOf(consumers, Topics) < MaxReadErrors
    /\ LET c == [consumers[t] EXCEPT !.readErrors = @ + 1]
       IN  /\ consumers' = [consumers EXCEPT ![t] = select(c, esCtx)]
           /\ wg' = wgDone(select(c, esCtx), wg)
    /\ UNCHANGED <<gwVars, esMain, esCtx, topics, posts>>

\* main: SIGINT or SIGTERM arrives and server.Shutdown returns; no handler
\* runs any more
Signal ==
    /\ esMain = "serving"
    /\ esMain' = "stopped"
    /\ UNCHANGED <<gwVars, esCtx, wg, topics, consumers, posts>>

\* EventService.Close (deferred in main): es.cancel()
CloseCancel ==
    /\ esMain = "stopped"
    /\ esMain' = "closing"
    /\ esCtx' = "cancelled"
    /\ UNCHANGED <<gwVars, wg, topics, consumers, posts>>

\* EventService.Close: es.wg.Wait() returns, producers and readers are
\* closed
CloseWait ==
    /\ esMain = "closing"
    /\ wg = 0
    /\ esMain' = "closed"
    /\ UNCHANGED <<gwVars, esCtx, wg, topics, consumers, posts>>

\* no request has been through a Director
NoDirect ==
    [ in |-> [Host |-> "", Scheme |-> "", URLHost |-> "", Path |-> "", RawQuery |-> ""],
      out |-> [Host |-> "", Scheme |-> "", URLHost |-> "", Path |-> "", RawQuery |-> ""],
      directed |-> FALSE ]

NoTrial == [drew |-> FALSE, r |-> -1, result |-> FALSE, target |-> "none"]

\* the gateway as it is before main() has run; it takes no step in
\* SpecEvents
GatewayNotStarted ==
    /\ phase = "start"
    /\ env = [ PORT |-> "", MONOLITH_URL |-> "", MOVIES_SERVICE_URL |-> "",
               EVENTS_SERVICE_URL |-> "", GRADUAL_MIGRATION |-> "",
               MOVIES_MIGRATION_PERCENT |-> <<>> ]
    /\ config = ZeroConfig
    /\ ps = NoProxyServer
    /\ reqs = [i \in 1..MaxRequests |-> IdleRequest]
    /\ rngDraws = 0
    /\ trial = NoTrial
    /\ direct = NoDirect

InitEvents == GatewayNotStarted /\ EventServiceStarted

NextEvents ==
    \/ \E i \in 1..MaxPosts : Post(i)
    \/ \E t \in Topics : Foreign(t)
    \/ \E t \in Topics : ConsumerMessage(t)
    \/ \E t \in Topics : ConsumerCanceled(t)
    \/ \E t \in Topics : ConsumerReadError(t)
    \/ Signal
    \/ CloseCancel
    \/ CloseWait

SpecEvents == InitEvents /\ [][NextEvents]_vars

\* the consumer goroutines and main are scheduled: ReadMessage(es.ctx)
\* returns once es.ctx is cancelled, and wg.Wait() returns once the counter
\* is zero.  Nothing is assumed of the clients, the brokers or the signal.
FairEvents ==
    /\ \A t \in Topics : WF_vars(ConsumerCanceled(t))
    /\ WF_vars(CloseWait)

\* The shutdown of the events service on its own: it serves, its consumers
\* are blocked in their first read, and the topics hold what their
\* producers (this service in an earlier run, or others) have written
BacklogMessages == { EventMessage(1), ForeignMessage }

Backlogs ==
    LET seqs == UNION { [1..n -> BacklogMessages] : n \in 0..MaxBacklog }
    IN  { f \in [Topics -> seqs] :
            Len(f["movie-events"]) + Len(f["user-events"])
                + Len(f["payment-events"]) <= MaxBacklog }

InitClose ==
    /\ GatewayNotStarted
    /\ esMain = "serving"
    /\ esCtx = "live"
    /\ wg = Cardinality(Topics)
    /\ topics \in Backlogs
    /\ consumers = [t \in Topics |-> StartedConsumer]
    /\ posts = [i \in 1..MaxPosts |-> IdlePost]

NextClose ==
    \/ \E t \in Topics : ConsumerMessage(t)
    \/ \E t \in Topics : ConsumerCanceled(t)
    \/ \E t \in Topics : ConsumerReadError(t)
    \/ Signal
    \/ CloseCancel
    \/ CloseWait

SpecClose == InitClose /\ [][NextClose]_vars /\ FairEvents

----------------------------------------------------------------------------
(* The gateway *)

Init ==
    /\ phase = "start"
    /\ env \in Environments
    /\ config = ZeroConfig
    /\ ps = NoProxyServer
    /\ reqs = [i \in 1..MaxRequests |-> IdleRequest]
    /\ rngDraws = 0
    /\ trial = NoTrial
    /\ direct = NoDirect
    /\ EventServiceStarted

\* main(): load the configuration, create the proxy server, listen
Main ==
    /\ phase = "start"
    /\ config' = loadConfig(env)
    /\ ps' = NewProxyServer(config')
    /\ phase' = IF NewProxyServerFails(config') THEN "fatal" ELSE "serving"
    /\ UNCHANGED <<env, reqs, rngDraws, trial, direct, esVars>>

\* a request arrives and runs through the middleware chain until it returns
\* or reaches shouldRouteToNewService or a backend
Arrive(i) ==
    /\ phase = "serving"
    /\ reqs[i].pc = "idle"
    /\ \E method \in Methods, path \in Paths :
         reqs' = [reqs EXCEPT ![i] =
                    LoggingMiddlewareLeave(
                      CORSMiddleware(LoggingMiddlewareEnter(method, path)))]
    /\ UNCHANGED <<phase, env, config, ps, rngDraws, trial, direct, esVars>>

\* a movies branch that sends the request to the movies service while the
\* decision is still being made
RouteHedged(i) ==
    /\ reqs[i].pc = "route"
    /\ \E o \in shouldRouteToNewService(config) :
         /\ reqs' = [reqs EXCEPT ![i] =
                       [@ EXCEPT !.drew = o.drew,
                                 !.backend = moviesTarget(o.result),
                                 !.calls = Append(@, "movies"),
                                 !.pc = "forward"]]
         /\ rngDraws' = IF o.drew THEN rngDraws + 1 ELSE rngDraws
    /\ UNCHANGED <<phase, env, config, ps, trial, direct, esVars>>

\* a movies branch that draws once and reuses the decision an earlier
\* request got
RouteCached(i) ==
    /\ reqs[i].pc = "route"
    /\ LET earlier == { j \in 1..MaxRequests :
                          j # i /\ reqs[j].drew /\ reqs[j].pc # "route" }
       IN  IF earlier # {}
           THEN /\ reqs' = [reqs EXCEPT ![i] =
                             [@ EXCEPT !.backend =
                                          reqs[CHOOSE j \in earlier : TRUE].backend,
                                       !.pc = "forward"]]
                /\ rngDraws' = rngDraws
           ELSE \E o \in shouldRouteToNewService(config) :
                  /\ reqs' = [reqs EXCEPT ![i] =
                                [@ EXCEPT !.drew = o.drew,
                                          !.backend = moviesTarget(o.result),
                                          !.pc = "forward"]]
                  /\ rngDraws' = IF o.drew THEN rngDraws + 1 ELSE rngDraws
    /\ UNCHANGED <<phase, env, config, ps, trial, direct, esVars>>

\* the movies branch of ServeHTTP: shouldRouteToNewService, then the choice
Route(i) ==
    /\ reqs[i].pc = "route"
    /\ \E o \in shouldRouteToNewService(config) :
         /\ reqs' = [reqs EXCEPT ![i] =
                       [@ EXCEPT !.drew = o.drew,
                                 !.backend = moviesTarget(o.result),
                                 !.pc = "forward"]]
         /\ rngDraws' = IF o.drew THEN rngDraws + 1 ELSE rngDraws
    /\ UNCHANGED <<phase, env, config, ps, trial, direct, esVars>>

\* the chosen proxy's ServeHTTP, then back through the middleware
\* a gateway that gives up (log.Fatalf) when a backend cannot be reached
ForwardFatal(i) ==
    /\ reqs[i].pc = "forward"
    /\ \E rt \in RoundTripsTo(targetURL(ps, reqs[i].backend)) :
         /\ reqs' = [reqs EXCEPT ![i] =
                       LoggingMiddlewareLeave(proxyServeHTTP(@, rt))]
         /\ phase' = IF rt.err THEN "fatal" ELSE phase
    /\ UNCHANGED <<env, config, ps, rngDraws, trial, direct, esVars>>

\* a gateway that takes the movies service out of the migration when it
\* cannot be reached
ForwardRollback(i) ==
    /\ reqs[i].pc = "forward"
    /\ \E rt \in RoundTripsTo(targetURL(ps, reqs[i].backend)) :
         /\ reqs' = [reqs EXCEPT ![i] =
                       LoggingMiddlewareLeave(proxyServeHTTP(@, rt))]
         /\ config' = IF rt.err /\ reqs[i].backend = "movies"
                      THEN [config EXCEPT !.GradualMigration = TRUE,
                                          !.MoviesMigrationPercent = 0]
                      ELSE config
    /\ UNCHANGED <<phase, env, ps, rngDraws, trial, direct, esVars>>

Forward(i) ==
    /\ reqs[i].pc = "forward"
    /\ \E rt \in RoundTripsTo(targetURL(ps, reqs[i].backend)) :
         reqs' = [reqs EXCEPT ![i] =
                    LoggingMiddlewareLeave(proxyServeHTTP(@, rt))]
    /\ UNCHANGED <<phase, env, config, ps, rngDraws, trial, direct, esVars>>

Next ==
    \/ Main
    \/ \E i \in 1..MaxRequests : Arrive(i)
    \/ \E i \in 1..MaxRequests : Route(i)
    \/ \E i \in 1..MaxRequests : Forward(i)

Spec == Init /\ [][Next]_vars

\* The gateway started with backend URLs an operator may have mistyped
InitStartup ==
    /\ phase = "start"
    /\ env \in StartupEnvironments
    /\ config = ZeroConfig
    /\ ps = NoProxyServer
    /\ reqs = [i \in 1..MaxRequests |-> IdleRequest]
    /\ rngDraws = 0
    /\ trial = NoTrial
    /\ direct = NoDirect
    /\ EventServiceStarted

SpecStartup == InitStartup /\ [][Next]_vars

----------------------------------------------------------------------------
(* The Director of the monolith's proxy applied to one request, for every  *)
(* base URL MONOLITH_URL may hold                                          *)

InitDirector ==
    /\ phase = "serving"
    /\ \E u \in DirectorTargets :
         env = [ PORT |-> "", MONOLITH_URL |-> u, MOVIES_SERVICE_URL |-> "",
                 EVENTS_SERVICE_URL |-> "", GRADUAL_MIGRATION |-> "",
                 MOVIES_MIGRATION_PERCENT |-> <<>> ]
    /\ config = loadConfig(env)
    /\ ps = NewProxyServer(config)
    /\ reqs = [i \in 1..MaxRequests |-> IdleRequest]
    /\ rngDraws = 0
    /\ trial = NoTrial
    /\ \E r \in DirectorRequests : direct = [in |-> r, out |-> r, directed |-> FALSE]
    /\ EventServiceStarted

\* monolithProxy.ServeHTTP calls its Director on the outbound request
Direct ==
    /\ ~direct.directed
    /\ direct' = [direct EXCEPT !.out = Director(ps.monolithURL, direct.in),
                                !.directed = TRUE]
    /\ UNCHANGED <<phase, env, config, ps, reqs, rngDraws, trial, esVars>>

NextDirector == Direct

SpecDirector == InitDirector /\ [][NextDirector]_vars

----------------------------------------------------------------------------
(* The gateway in front of backends that may accept a connection and then  *)
(* stay silent.  The proxies use the default transport, which waits for    *)
(* the response headers without a deadline, and the server's WriteTimeout  *)
(* does not end a running handler.                                         *)

\* the backend accepts the connection and the request, and does not answer:
\* the handler blocks in the transport's round trip
Hang(i) ==
    /\ reqs[i].pc = "forward"
    /\ \E rt \in RoundTripsTo(targetURL(ps, reqs[i].backend)) : ~rt.err
    /\ reqs' = [reqs EXCEPT ![i] = [@ EXCEPT !.pc = "waiting", !.conn = "accepted",
                                             !.calls = Append(@, reqs[i].backend)]]
    /\ UNCHANGED <<phase, env, config, ps, rngDraws, trial, direct, esVars>>

\* the client closes its connection: the request context is cancelled, the
\* round trip returns an error and ErrorHandler runs
Abandon(i) ==
    /\ reqs[i].pc = "waiting"
    /\ reqs' = [reqs EXCEPT ![i] =
                  LoggingMiddlewareLeave(
                    ErrorHandler([@ EXCEPT !.conn = "canceled", !.pc = "return"]))]
    /\ UNCHANGED <<phase, env, config, ps, rngDraws, trial, direct, esVars>>

\* main has loaded the configuration and listens
InitLive ==
    /\ phase = "serving"
    /\ env = [ PORT |-> "", MONOLITH_URL |-> "", MOVIES_SERVICE_URL |-> "",
               EVENTS_SERVICE_URL |-> "", GRADUAL_MIGRATION |-> "true",
               MOVIES_MIGRATION_PERCENT |-> <<>> ]
    /\ config = loadConfig(env)
    /\ ps = NewProxyServer(config)
    /\ reqs = [i \in 1..MaxRequests |-> IdleRequest]
    /\ rngDraws = 0
    /\ trial = NoTrial
    /\ direct = NoDirect
    /\ EventServiceStarted

NextLive ==
    \/ \E i \in 1..MaxRequests : Arrive(i)
    \/ \E i \in 1..MaxRequests : Route(i)
    \/ \E i \in 1..MaxRequests : Forward(i)
    \/ \E i \in 1..MaxRequests : Hang(i)
    \/ \E i \in 1..MaxRequests : Abandon(i)

\* every handler goroutine is scheduled, and a backend that answers or
\* refuses does so in finite time; clients need not send requests nor give
\* up waiting
FairLive ==
    \A i \in 1..MaxRequests : WF_vars(Route(i)) /\ WF_vars(Forward(i))

SpecLive == InitLive /\ [][NextLive]_vars /\ FairLive

----------------------------------------------------------------------------
(* The movies routing decision on its own, for every percentage *)

PolicyPercents == (0 - PercentMargin)..(DrawRange + PercentMargin)

\* the gateway after main() has started it, for every flag and percentage
InitPolicy ==
    /\ phase = "serving"
    /\ \E g \in {"true", "false"}, p \in PolicyPercents :
         env = [ PORT |-> "", MONOLITH_URL |-> "", MOVIES_SERVICE_URL |-> "",
                 EVENTS_SERVICE_URL |-> "", GRADUAL_MIGRATION |-> g,
                 MOVIES_MIGRATION_PERCENT |-> Decimal(p) ]
    /\ config = loadConfig(env)
    /\ ps = NewProxyServer(config)
    /\ reqs = [i \in 1..MaxRequests |-> IdleRequest]
    /\ rngDraws = 0
    /\ trial = NoTrial
    /\ direct = NoDirect
    /\ EventServiceStarted

\* a /api/movies request is routed: one call of shouldRouteToNewService
PolicyTrial ==
    /\ \E o \in shouldRouteToNewService(config) :
         trial' = [drew |-> o.drew, r |-> o.r, result |-> o.result,
                   target |-> moviesTarget(o.result)]
    /\ UNCHANGED <<phase, env, config, ps, reqs, rngDraws, direct, esVars>>

NextPolicy == PolicyTrial

SpecPolicy == InitPolicy /\ [][NextPolicy]_vars

----------------------------------------------------------------------------
(* The gateway serving under a few configurations, to compare what the     *)
(* requests of one run are offered                                         *)

\* the gateway after main() has started it, with and without gradual
\* migration, at 0, 50 (the default) and 100 percent
InitServe ==
    /\ phase = "serving"
    /\ \E g \in {"true", "false"}, p \in {<<>>, Decimal(0), Decimal(DrawRange)} :
         env = [ PORT |-> "", MONOLITH_URL |-> "", MOVIES_SERVICE_URL |-> "",
                 EVENTS_SERVICE_URL |-> "", GRADUAL_MIGRATION |-> g,
                 MOVIES_MIGRATION_PERCENT |-> p ]
    /\ config = loadConfig(env)
    /\ ps = NewProxyServer(config)
    /\ reqs = [i \in 1..MaxRequests |-> IdleRequest]
    /\ rngDraws = 0
    /\ trial = NoTrial
    /\ direct = NoDirect
    /\ EventServiceStarted

NextServe ==
    \/ \E i \in 1..MaxRequests : Arrive(i)
    \/ \E i \in 1..MaxRequests : Route(i)
    \/ \E i \in 1..MaxRequests : Forward(i)

SpecServe == InitServe /\ [][NextServe]_vars

----------------------------------------------------------------------------
(* The movies decision step by step.  http.Server runs every request in    *)
(* its own goroutine, and all of them call Intn on the one *rand.Rand of   *)
(* the ProxyServer, which has no lock of its own and none around it: Intn  *)
(* reads and writes the generator's state between its begin and its end.   *)

\* the gateway after main() has started it, with and without gradual
\* migration
InitRace ==
    /\ phase = "serving"
    /\ \E g \in {"true", "false"} :
         env = [ PORT |-> "", MONOLITH_URL |-> "", MOVIES_SERVICE_URL |-> "",
                 EVENTS_SERVICE_URL |-> "", GRADUAL_MIGRATION |-> g,
                 MOVIES_MIGRATION_PERCENT |-> <<>> ]
    /\ config = loadConfig(env)
    /\ ps = NewProxyServer(config)
    /\ reqs = [i \in 1..MaxRequests |-> IdleRequest]
    /\ rngDraws = 0
    /\ trial = NoTrial
    /\ direct = NoDirect
    /\ EventServiceStarted

\* the requests inside ps.rand.Intn
Drawing == { j \in 1..MaxRequests : reqs[j].pc = "drawing" }

\* shouldRouteToNewService up to the first access of Intn to the generator:
\* without gradual migration it has returned true; with it, the request is
\* inside Intn, together with every request already there
IntnBegin(i) ==
    /\ reqs[i].pc = "route"
    /\ IF ~config.GradualMigration
       THEN \E o \in shouldRouteToNewService(config) :
              reqs' = [reqs EXCEPT ![i] =
                         [@ EXCEPT !.drew = o.drew,
                                   !.backend = moviesTarget(o.result),
                                   !.pc = "forward"]]
       ELSE reqs' = [j \in 1..MaxRequests |->
                       IF j = i
                       THEN [reqs[j] EXCEPT !.pc = "drawing",
                                            !.raced = Drawing # {}]
                       ELSE IF j \in Drawing
                       THEN [reqs[j] EXCEPT !.raced = TRUE]
                       ELSE reqs[j]]
    /\ UNCHANGED <<phase, env, config, ps, rngDraws, trial, direct, esVars>>

\* Intn returns and ServeHTTP picks the proxy.  A call that had the
\* generator to itself returns a value of 0..99 and has advanced the
\* generator by one.  A call that overlapped another has raced on the
\* generator's indexes: it returns some value of 0..99, or it has indexed
\* the generator's vector out of range and panics, which ends the request
\* without a response (net/http recovers and closes the connection); the
\* generator has advanced by one or an update was lost
IntnEnd(i) ==
    /\ reqs[i].pc = "drawing"
    /\ \/ \E o \in shouldRouteToNewService(config) :
            reqs' = [reqs EXCEPT ![i] =
                       [@ EXCEPT !.drew = o.drew,
                                 !.backend = moviesTarget(o.result),
                                 !.pc = "forward"]]
       \/ /\ reqs[i].raced
          /\ reqs' = [reqs EXCEPT ![i] = [@ EXCEPT !.drew = TRUE,
                                                   !.pc = "panicked"]]
    /\ rngDraws' \in IF reqs[i].raced THEN {rngDraws, rngDraws + 1}
                                      ELSE {rngDraws + 1}
    /\ UNCHANGED <<phase, env, config, ps, trial, direct, esVars>>

NextRace ==
    \/ \E i \in 1..MaxRequests : Arrive(i)
    \/ \E i \in 1..MaxRequests : IntnBegin(i)
    \/ \E i \in 1..MaxRequests : IntnEnd(i)
    \/ \E i \in 1..MaxRequests : Forward(i)

SpecRace == InitRace /\ [][NextRace]_vars

----------------------------------------------------------------------------
(* The classification of ServeHTTP on its own, for paths that differ from   *)
(* the prefixes in case, slashes, length and position                       *)

ClassifyPaths ==
    Paths \cup
    { <<>>,
      <<"/">>,
      <<"/","/","a","p","i","/","m","o","v","i","e","s">>,
      <<"/","a","p","i","/","m","o","v","i","e">>,
      <<"/","a","p","i","/","m","o","v","i","e","s","/">>,
      <<"/","a","p","i","/","M","o","v","i","e","s">>,
      <<"/","a","p","i","/","e","v","e","n","t">>,
      <<"/","a","p","i","/","e","v","e","n","t","s","X">>,
      <<"/","a","p","i","/","E","v","e","n","t","s">>,
      <<"/","x","/","a","p","i","/","e","v","e","n","t","s">>,
      <<"a","p","i","/","m","o","v","i","e","s">>,
      <<"/","h","e","a","l","t","h","/">> }

\* a request with any of these paths arrives and runs through the
\* middleware chain until it returns or reaches shouldRouteToNewService or
\* a backend
Classify(i) ==
    /\ phase = "serving"
    /\ reqs[i].pc = "idle"
    /\ \E method \in Methods, path \in ClassifyPaths :
         reqs' = [reqs EXCEPT ![i] =
                    LoggingMiddlewareLeave(
                      CORSMiddleware(LoggingMiddlewareEnter(method, path)))]
    /\ UNCHANGED <<phase, env, config, ps, rngDraws, trial, direct, esVars>>

NextClassify == \E i \in 1..MaxRequests : Classify(i)

SpecClassify == InitLive /\ [][NextClassify]_vars

----------------------------------------------------------------------------
(* Properties *)

\* does s begin with p, character by character
StartsWith(s, p) ==
    /\ Len(s) >= Len(p)
    /\ \A k \in 1..Len(p) : s[k] = p[k]

EventsPath(q) == StartsWith(q.path, EventsPrefix)

MoviesPath(q) == StartsWith(q.path, MoviesPrefix)

Slots == 1..MaxRequests

Arrived(q) == q.pc # "idle"

HeaderNames(q) == { h[1] : h \in q.headers }

\* C1: every request other than OPTIONS whose path starts with /api/events
\* is handed to the events proxy, and to no other, under every configuration;
\* once it is finished the events backend is the one that was called.
C1_EventsAlwaysToEvents ==
    \A i \in Slots :
        LET q == reqs[i] IN
        (Arrived(q) /\ q.method # "OPTIONS" /\ EventsPath(q)) =>
            /\ q.backend = "events"
            /\ q.pc \in {"forward", "done"}
            /\ ~q.drew
            /\ q.pc = "done" => q.conn # "none"

C1_Witness ==
    /\ config.GradualMigration
    /\ config.MoviesMigrationPercent = 0
    /\ \E i \in Slots :
         /\ reqs[i].pc = "done" /\ reqs[i].method = "GET"
         /\ reqs[i].path = EventsPrefix \o <<"/","m","o","v","i","e">>
         /\ reqs[i].backend = "events" /\ reqs[i].conn = "ok"

\* C2 as stated: with GradualMigration false every /api/movies* request is
\* forwarded to the movies microservice and none to the monolith.
C2_EveryMoviesRequestToMovies ==
    (phase = "serving" /\ ~config.GradualMigration) =>
        \A i \in Slots :
            LET q == reqs[i] IN
            (q.pc = "done" /\ MoviesPath(q)) =>
                q.backend = "movies" /\ q.conn # "none"

\* C2 amended: with GradualMigration false every /api/movies* request other
\* than OPTIONS is forwarded to the movies microservice, none is forwarded to
\* the monolith, whatever the percentage, and the random source is not used.
C2_NonOptionsMoviesToMovies ==
    (phase = "serving" /\ ~config.GradualMigration) =>
        /\ rngDraws = 0
        /\ \A i \in Slots :
             LET q == reqs[i] IN
             (Arrived(q) /\ MoviesPath(q)) =>
                 /\ q.backend # "monolith"
                 /\ ~q.drew
                 /\ (q.method # "OPTIONS" /\ q.pc \in {"forward", "done"}) =>
                        q.backend = "movies"
                 /\ (q.method # "OPTIONS" /\ q.pc = "done") => q.conn # "none"
                 /\ q.method # "OPTIONS" => q.pc \in {"route", "forward", "done"}

C2_Witness ==
    /\ ~config.GradualMigration
    /\ config.MoviesMigrationPercent = 0
    /\ \E i \in Slots :
         /\ reqs[i].pc = "done" /\ reqs[i].method = "GET"
         /\ reqs[i].path = MoviesPrefix
         /\ reqs[i].backend = "movies" /\ reqs[i].conn = "ok"

\* the percentages of SpecPolicy reach the configuration as they were written
PolicyPercentLoaded ==
    config.MoviesMigrationPercent \in PolicyPercents
        /\ Decimal(config.MoviesMigrationPercent) = env.MOVIES_MIGRATION_PERCENT

\* C3: with GradualMigration true and a percentage p in 0..100, a
\* /api/movies* request whose draw is r (in 0..99) goes to the movies
\* microservice iff r < p and to the monolith otherwise, and exactly p of the
\* 100 draws select the microservice.
C3_DrawBelowPercent ==
    LET p == config.MoviesMigrationPercent IN
    (config.GradualMigration /\ p \in 0..DrawRange) =>
        /\ trial.target # "none" =>
             /\ trial.drew
             /\ trial.r \in 0..99
             /\ trial.target = "movies" <=> trial.r < p
             /\ trial.target = "monolith" <=> trial.r >= p
        /\ Cardinality({ o.r : o \in { x \in shouldRouteToNewService(config) :
                                          moviesTarget(x.result) = "movies" } }) = p
        /\ Cardinality({ o.r : o \in shouldRouteToNewService(config) }) = 100

C3_Witness ==
    /\ config.GradualMigration
    /\ config.MoviesMigrationPercent = 50
    /\ trial.r = 49
    /\ trial.target = "movies"

C6_EveryOtherPathToMonolith ==
    \A i \in Slots :
        LET q == reqs[i] IN
        (q.pc = "done" /\ ~EventsPath(q) /\ ~MoviesPath(q)) =>
            q.backend = "monolith"

\* C6 amended: for every request other than OPTIONS whose path is not
\* exactly /health and starts with neither /api/events nor /api/movies, the
\* backend is the monolith, under every configuration.
C6_OtherPathsToMonolith ==
    \A i \in Slots :
        LET q == reqs[i] IN
        (Arrived(q) /\ q.method # "OPTIONS" /\ q.path # HealthPath
            /\ ~EventsPath(q) /\ ~MoviesPath(q)) =>
            /\ q.backend = "monolith"
            /\ q.pc \in {"forward", "done"}
            /\ ~q.drew
            /\ q.pc = "done" => q.conn # "none"

C6_Witness ==
    /\ config.GradualMigration
    /\ config.MoviesMigrationPercent = 100
    /\ \E i \in Slots :
         /\ reqs[i].pc = "done" /\ reqs[i].method = "GET"
         /\ reqs[i].path = <<"/","a","p","i","/","u","s","e","r","s">>
         /\ reqs[i].backend = "monolith" /\ reqs[i].conn = "ok"

\* C7: a request whose chosen backend refuses the connection is answered 502
\* with a JSON body that has an "error" key, whichever backend it is.
C7_RefusedIs502 ==
    \A i \in Slots :
        LET q == reqs[i] IN
        q.conn = "refused" =>
            /\ q.backend \in Backends
            /\ q.status = StatusBadGateway
            /\ q.body.kind = "json"
            /\ \E f \in q.body.fields : f[1] = "error"

C7_Witness ==
    \E i, j \in Slots :
        /\ reqs[i].backend = "movies" /\ reqs[i].conn = "refused"
        /\ reqs[i].status = 502
        /\ reqs[j].backend = "events" /\ reqs[j].conn = "refused"
        /\ reqs[j].status = 502

\* C8: an OPTIONS request to any path is answered 200 with the three CORS
\* headers set; neither the health handler nor a backend is reached.
C8_OptionsShortCircuit ==
    \A i \in Slots :
        LET q == reqs[i] IN
        (Arrived(q) /\ q.method = "OPTIONS") =>
            /\ q.pc = "done"
            /\ q.status = 200
            /\ { "Access-Control-Allow-Origin",
                 "Access-Control-Allow-Methods",
                 "Access-Control-Allow-Headers" } \subseteq HeaderNames(q)
            /\ q.handler = "cors"
            /\ q.backend = "none"
            /\ q.conn = "none"
            /\ q.body = NoBody

C8_Witness ==
    \E i, j \in Slots :
        /\ reqs[i].method = "OPTIONS" /\ reqs[i].path = HealthPath
        /\ reqs[i].pc = "done" /\ reqs[i].status = 200
        /\ reqs[j].method = "OPTIONS" /\ reqs[j].path = MoviesPrefix
        /\ reqs[j].pc = "done" /\ reqs[j].status = 200

\* C9: a GET request for exactly /health is answered 200 with the fixed body
\* by the gateway itself: no backend is contacted and nothing is drawn,
\* whatever the configuration.
C9_HealthAnsweredDirectly ==
    \A i \in Slots :
        LET q == reqs[i] IN
        (Arrived(q) /\ q.method = "GET" /\ q.path = HealthPath) =>
            /\ q.pc = "done"
            /\ q.status = 200
            /\ q.body = TextBody("Strangler Fig Proxy is healthy")
            /\ q.handler = "health"
            /\ q.backend = "none"
            /\ q.conn = "none"
            /\ ~q.drew

C9_Witness ==
    /\ config.GradualMigration
    /\ \E i \in Slots :
         /\ reqs[i].method = "GET" /\ reqs[i].path = HealthPath
         /\ reqs[i].pc = "done" /\ reqs[i].status = 200

\* C10: once the configuration is loaded MoviesMigrationPercent is within
\* 0..100; a value outside never reaches the routing decision.
C10_PercentWithinRange ==
    phase = "serving" => config.MoviesMigrationPercent \in 0..100

\* C11: when GRADUAL_MIGRATION is not set the gateway serves with gradual
\* migration enabled (the documented default is true), so that movies traffic
\* is split by the percentage.
C11_UnsetFlagEnablesGradual ==
    (phase = "serving" /\ env.GRADUAL_MIGRATION = "") =>
        config.GradualMigration

\* a URL a reverse proxy can forward to: url.Parse accepts it and it names
\* an http or https host
UsableBackendURL(u) ==
    LET t == urlParse(u)
    IN  ~t.err /\ t.Scheme \in {"http", "https"} /\ t.Host # ""

\* C12: the process serves only when all three backend URLs are valid; with
\* an invalid one it terminates before listening, so no request is forwarded
\* with an invalid backend URL.
C12_InvalidURLNeverServes ==
    /\ phase = "serving" =>
         /\ UsableBackendURL(config.MonolithURL)
         /\ UsableBackendURL(config.MoviesServiceURL)
         /\ UsableBackendURL(config.EventsServiceURL)
    /\ \A i \in Slots :
         reqs[i].backend # "none" =>
             UsableBackendURL(CASE reqs[i].backend = "monolith" -> config.MonolithURL
                                [] reqs[i].backend = "movies" -> config.MoviesServiceURL
                                [] reqs[i].backend = "events" -> config.EventsServiceURL)

\* the part of C12 the code keeps: a URL url.Parse rejects stops the process
\* before it serves
RejectedURLIsFatal ==
    (phase # "start" /\ \E u \in {config.MonolithURL, config.MoviesServiceURL,
                                   config.EventsServiceURL} : urlParseFails(u))
        => phase = "fatal" /\ \A i \in Slots : reqs[i].pc = "idle"

\* C13: a request whose backend accepted the connection and never answers
\* is eventually ended by the gateway's timeout with the 502 of the
\* forwarding failure path.
C13_SilentBackendEndsIn502 ==
    \A i \in Slots :
        (reqs[i].pc = "waiting") ~>
            (reqs[i].pc = "done" /\ reqs[i].status = StatusBadGateway)

\* C14: a request is dispatched to at most one backend and at most once: the
\* one round trip it makes goes to the backend chosen for it, and a refused
\* round trip is answered 502 without a second attempt or another backend.
C14_AtMostOneDispatch ==
    \A i \in Slots :
        LET q == reqs[i] IN
        /\ Len(q.calls) <= 1
        /\ q.calls # <<>> => q.calls = <<q.backend>>
        /\ q.backend = "none" => q.calls = <<>>
        /\ (q.pc = "done" /\ q.backend # "none") => Len(q.calls) = 1
        /\ q.conn = "refused" =>
              /\ q.pc = "done"
              /\ q.status = StatusBadGateway

C14_Witness ==
    \E i \in Slots :
        /\ reqs[i].pc = "done"
        /\ reqs[i].conn = "refused"
        /\ reqs[i].calls = <<"movies">>
        /\ reqs[i].status = StatusBadGateway

\* the terminal outcomes of a request, by who wrote its response
Outcomes == {"proxy", "errorHandler", "health", "cors"}

\* C15: every request that has arrived eventually has exactly one terminal
\* outcome (relayed backend response, 502 of the failure path, health
\* response, CORS short-circuit), logged once; none stays without outcome.
C15_ExactlyOneOutcome ==
    \A i \in Slots :
        (reqs[i].pc # "idle") ~>
            (/\ reqs[i].pc = "done"
             /\ reqs[i].handler \in Outcomes
             /\ Len(reqs[i].logged) = 1)

\* the part of C15 the code keeps: no request has two outcomes, and a
\* finished request has exactly one
NeverTwoOutcomes ==
    \A i \in Slots :
        /\ Len(reqs[i].logged) <= 1
        /\ reqs[i].pc = "done" <=> Len(reqs[i].logged) = 1
        /\ reqs[i].pc = "done" <=> reqs[i].handler \in Outcomes
        /\ reqs[i].pc = "done" <=> reqs[i].status # 0

\* C16: forwarding rewrites only host and scheme: for every configured
\* target base URL the outbound path and query string are the inbound ones.
C16_PathAndQueryUnchanged ==
    direct.directed =>
        /\ direct.out.Path = direct.in.Path
        /\ direct.out.RawQuery = direct.in.RawQuery

\* the part of C16 the code keeps: host and scheme are the target's, and
\* for a base URL without path and query the path and query pass unchanged
HostAndSchemeRewritten ==
    direct.directed =>
        /\ direct.out.Host = ps.monolithURL.Host
        /\ direct.out.URLHost = ps.monolithURL.Host
        /\ direct.out.Scheme = ps.monolithURL.Scheme
        /\ (ps.monolithURL.Path = "" /\ ps.monolithURL.RawQuery = "") =>
              /\ direct.out.Path = direct.in.Path
              /\ direct.out.RawQuery = direct.in.RawQuery

\* the backends the rules name for a request under a configuration
\* ("none": answered by the gateway itself)
RuleBackends(q, c) ==
    IF q.method = "OPTIONS" \/ q.path = HealthPath THEN {"none"}
    ELSE IF EventsPath(q) THEN {"events"}
    ELSE IF MoviesPath(q) THEN
        IF ~c.GradualMigration \/ c.MoviesMigrationPercent >= 100 THEN {"movies"}
        ELSE IF c.MoviesMigrationPercent <= 0 THEN {"monolith"}
        ELSE {"movies", "monolith"}
    ELSE {"monolith"}

\* C17: a forwarding failure changes nothing but the failed request: the
\* process keeps serving with the same configuration and random source
\* position, the other requests are untouched, and every request, before
\* and after a failure, goes to the backend the rules name, the failed one
\* included.
C17_FailureLeavesStateUnchanged ==
    /\ [][\A i \in Slots :
            (reqs[i].pc = "forward" /\ reqs'[i].conn = "refused") =>
                /\ phase' = phase /\ phase = "serving"
                /\ env' = env /\ config' = config /\ ps' = ps
                /\ rngDraws' = rngDraws
                /\ \A j \in Slots \ {i} : reqs'[j] = reqs[j]]_vars
    /\ [](\A i \in Slots :
            (Arrived(reqs[i]) /\ reqs[i].pc # "route") =>
                reqs[i].backend \in RuleBackends(reqs[i], config))
    /\ [](phase = "serving" => \A i \in Slots :
            reqs[i].pc = "idle" => ENABLED Arrive(i))

C17_Witness ==
    \E i, j \in Slots :
        /\ reqs[i].pc = "done" /\ reqs[i].conn = "refused"
        /\ reqs[i].backend = "events"
        /\ reqs[j].pc = "forward" /\ reqs[j].backend = "events"
        /\ phase = "serving"

PostSlots == 1..MaxPosts

\* the event of request i is in some topic
Written(i) ==
    \E t \in Topics : \E k \in 1..Len(topics[t]) : topics[t][k].key = i

\* the event of request i is in the topic of its endpoint
WrittenToItsTopic(i) ==
    LET log == topics[topicOf(posts[i].endpoint)]
    IN  \E k \in 1..Len(log) : log[k] = EventMessage(i)

\* the whole body is one JSON value
ValidJSON(body) == body.value = "object" /\ ~body.trailing

\* C18: the response of a POST to an event endpoint reflects the publish
\* outcome: 201 with status "success" only with the event written to the
\* topic; a body that is not valid JSON gets 400 and nothing is written; a
\* failed Kafka write gets 500.
C18_StatusReflectsPublish ==
    \A i \in PostSlots :
        LET p == posts[i] IN
        (p.pc = "done" /\ p.method = "POST") =>
            /\ p.status = StatusCreated =>
                  p.responseStatus = "success" /\ WrittenToItsTopic(i)
            /\ ~ValidJSON(p.body) =>
                  p.status = StatusBadRequest /\ ~Written(i)
            /\ p.write = "failed" => p.status = StatusInternalServerError

\* the part of C18 the code keeps: an event is written exactly when the
\* answer is 201 "success", a first value that is not JSON gets 400, a
\* failed write gets 500
PublishOutcomeReflected ==
    \A i \in PostSlots :
        LET p == posts[i] IN
        /\ Written(i) <=> (p.pc = "done" /\ p.status = StatusCreated)
        /\ (p.pc = "done" /\ p.method = "POST") =>
              /\ p.status = StatusCreated =>
                    p.responseStatus = "success" /\ WrittenToItsTopic(i)
              /\ p.body.value # "object" => p.status = StatusBadRequest
              /\ p.write = "failed" => p.status = StatusInternalServerError

\* C19: graceful shutdown processes all events: every event acknowledged
\* with 201 (all of them before the signal) has been consumed and logged as
\* processed by the consumer of its topic when that consumer stops.
C19_AckedEventsProcessedBeforeStop ==
    \A i \in PostSlots :
        LET p == posts[i] IN
        (/\ p.pc = "done" /\ p.status = StatusCreated
         /\ consumers[topicOf(p.endpoint)].pc = "exited") =>
            i \in consumers[topicOf(p.endpoint)].processed

\* C20: an error does not stop a consumer: after a failed read or a message
\* that does not parse as an Event the goroutine is reading again and takes
\* the later messages of its topic; it stops only once es.ctx is cancelled.
C20_ConsumerSurvivesErrors ==
    /\ [](\A t \in Topics :
            consumers[t].pc = "exited" => esCtx = "cancelled")
    /\ [][\A t \in Topics :
            (/\ consumers[t].pc = "read"
             /\ esCtx = "live"
             /\ \/ consumers'[t].readErrors > consumers[t].readErrors
                \/ consumers'[t].parseErrors > consumers[t].parseErrors)
            => consumers'[t].pc = "read"]_vars
    /\ [](\A t \in Topics :
            (consumers[t].pc = "read" /\ consumers[t].offset < Len(topics[t]))
            => ENABLED ConsumerMessage(t))

C20_Witness ==
    \E t \in Topics :
        LET c == consumers[t] IN
        /\ c.pc = "read" /\ esCtx = "live"
        /\ c.readErrors >= 1
        /\ c.parseErrors >= 1
        /\ \E k, j \in 1..c.offset :
             /\ k < j
             /\ ~topics[t][k].isEvent
             /\ topics[t][j].isEvent
             /\ topics[t][j].key \in c.processed

\* the categories ServeHTTP has put a request in, read off the branch it
\* took: the events proxy, shouldRouteToNewService, or the monolith proxy
\* without a decision
CategoriesOf(q) ==
    { c \in {"Events", "Movies", "Default"} :
        \/ c = "Events" /\ q.backend = "events"
        \/ c = "Movies" /\ (q.pc = "route" \/ q.backend = "movies" \/ q.drew)
        \/ c = "Default" /\ q.backend = "monolith" /\ ~q.drew }

\* the request has reached the classification of ServeHTTP
Classified(q) == Arrived(q) /\ q.method # "OPTIONS" /\ q.path # HealthPath

\* C21: classification is an exact, case-sensitive prefix test on the raw
\* path: a classified request is Events iff its path starts with
\* "/api/events", Movies iff it starts with "/api/movies" and Default
\* otherwise, so "/api/moviesX" is Movies while "/API/movies" and
\* "//api/movies" are Default; every path gets exactly one category.
C21_ExactPrefixClassification ==
    \A i \in Slots :
        LET q == reqs[i] IN
        Classified(q) =>
            /\ Cardinality(CategoriesOf(q)) = 1
            /\ "Events" \in CategoriesOf(q) <=> StartsWith(q.path, EventsPrefix)
            /\ "Movies" \in CategoriesOf(q) <=> StartsWith(q.path, MoviesPrefix)
            /\ "Default" \in CategoriesOf(q) <=>
                  (~StartsWith(q.path, EventsPrefix) /\ ~StartsWith(q.path, MoviesPrefix))
            /\ q.path = MoviesPrefix \o <<"X">> => CategoriesOf(q) = {"Movies"}
            /\ q.path \in { <<"/","A","P","I","/","m","o","v","i","e","s">>,
                            <<"/","/","a","p","i","/","m","o","v","i","e","s">> }
                  => CategoriesOf(q) = {"Default"}

C21_Witness ==
    \E i, j \in Slots :
        /\ reqs[i].path = MoviesPrefix \o <<"X">> /\ reqs[i].pc = "route"
        /\ reqs[j].path = <<"/","/","a","p","i","/","m","o","v","i","e","s">>
        /\ reqs[j].pc = "forward" /\ reqs[j].backend = "monolith"

\* the backend of a request as a function of its method, its path, the
\* configuration and its own draw ("none": answered by the gateway itself)
BackendFor(method, path, c, r) ==
    IF method = "OPTIONS" \/ path = HealthPath THEN "none"
    ELSE IF StartsWith(path, EventsPrefix) THEN "events"
    ELSE IF StartsWith(path, MoviesPrefix)
    THEN IF ~c.GradualMigration \/ r < c.MoviesMigrationPercent
         THEN "movies" ELSE "monolith"
    ELSE "monolith"

\* the requests that call shouldRouteToNewService under gradual migration
DrawsByRule(q, c) ==
    /\ q.method # "OPTIONS"
    /\ StartsWith(q.path, MoviesPrefix)
    /\ c.GradualMigration

\* the backends that function yields over the draws a request can make
\* (a request that does not draw has the one backend the function yields
\* whatever the draw)
BackendsOverDraws(q, c) ==
    { BackendFor(q.method, q.path, c, r) :
        r \in IF DrawsByRule(q, c) THEN 0..(DrawRange - 1) ELSE {0} }

\* C22: the pipeline is stateless across requests: whatever requests and
\* failures came before, a request about to be decided can get every
\* backend its method, path, the configuration and one of its own draws
\* yield, a decided request has one of these and no other, and a request
\* draws iff it is a non-OPTIONS movies request under gradual migration.
C22_StatelessAcrossRequests ==
    \A i \in Slots :
        LET q == reqs[i] IN
        /\ q.pc = "route" =>
              \A b \in BackendsOverDraws(q, config) :
                  ENABLED (Route(i) /\ reqs'[i].backend = b)
        /\ (Arrived(q) /\ q.pc # "route") =>
              /\ q.backend \in BackendsOverDraws(q, config)
              /\ q.drew <=> (/\ q.method # "OPTIONS"
                             /\ StartsWith(q.path, MoviesPrefix)
                             /\ config.GradualMigration)

\* a movies request about to be decided after an earlier one drew the
\* monolith and its round trip was refused
C22_Witness ==
    \E i, j \in Slots :
        /\ reqs[i].pc = "route"
        /\ reqs[j].pc = "done" /\ reqs[j].drew
        /\ reqs[j].backend = "monolith" /\ reqs[j].conn = "refused"
        /\ Cardinality(BackendsOverDraws(reqs[i], config)) = 2

\* C23: draws from the process-wide random source by concurrently handled
\* movies requests are mutually atomic: no two requests are inside the
\* generator at the same time, so no call overlaps another and every
\* request that draws gets a value of 0..99 and goes on to a backend.
C23_DrawsMutuallyAtomic ==
    /\ \A i, j \in Slots :
          (reqs[i].pc = "drawing" /\ reqs[j].pc = "drawing") => i = j
    /\ \A i \in Slots : ~reqs[i].raced /\ reqs[i].pc # "panicked"

\* what the code keeps of C23: a call of Intn that returns, returns a value
\* of 0..99 and the request goes to the backend that value selects
ReturnedDrawSelectsBackend ==
    \A i \in Slots :
        (reqs[i].drew /\ reqs[i].pc # "panicked") =>
            reqs[i].backend \in BackendsOverDraws(reqs[i], config)

\* C24: after NewProxyServer has returned, the configuration and the three
\* proxy targets are never written again: no step of any request changes
\* them, so every request, at every point of its handling and under any
\* interleaving, reads the values main loaded.
C24_ConfigNeverWritten ==
    /\ [][phase # "start" =>
            (config' = config /\ ps' = ps /\ env' = env)]_vars
    /\ [](phase = "serving" => config = loadConfig(env))

\* the gateway serves, one request is finished after a refused round trip
\* to the movies service and another is about to be decided
C24_Witness ==
    \E i, j \in Slots :
        /\ phase = "serving"
        /\ reqs[i].pc = "done" /\ reqs[i].calls = <<"movies">>
        /\ reqs[i].conn = "refused"
        /\ reqs[j].pc = "route"
        /\ config = loadConfig(env)

\* C25: whichever path produced the response (health, OPTIONS short-circuit,
\* proxied success, proxied 502), the logging middleware writes exactly one
\* access-log entry, after the inner handler has returned and not before,
\* and the status in it is the status code sent to the client; until a
\* handler calls WriteHeader the status it would record is 200.
C25_OneLogEntryWithSentStatus ==
    \A i \in Slots :
        LET q == reqs[i] IN
        /\ Len(q.logged) <= 1
        /\ Len(q.logged) = 1 <=> q.pc = "done"
        /\ q.pc = "done" =>
              /\ q.status # 0
              /\ q.logged = <<q.status>>
              /\ q.handler \in {"health", "cors"} => q.logged = <<StatusOK>>
              /\ q.handler = "errorHandler" => q.logged = <<StatusBadGateway>>
              /\ q.handler = "proxy" => q.logged[1] \in BackendStatuses
        /\ (Arrived(q) /\ q.status = 0) => q.statusCode = StatusOK

\* one request answered 502 after a refused round trip and one whose
\* backend answered 404, both logged with that status
C25_Witness ==
    \E i, j \in Slots :
        /\ reqs[i].pc = "done" /\ reqs[i].handler = "errorHandler"
        /\ reqs[i].logged = <<StatusBadGateway>>
        /\ reqs[j].pc = "done" /\ reqs[j].handler = "proxy"
        /\ reqs[j].status = 404 /\ reqs[j].logged = <<404>>

\* how far a request is: not arrived, classified as movies and undecided,
\* decided, answered
StepRank(pc) ==
    CASE pc = "idle" -> 0
      [] pc = "route" -> 1
      [] pc = "forward" -> 2
      [] OTHER -> 3

\* C26: within one request the steps occur in the order CORS check, health
\* check, classify, decide, forward: an OPTIONS request is answered before
\* the health check and the health check before classification, a request
\* never steps back, a backend is contacted only by a request whose
\* decision was made in an earlier step, and it is the backend that
\* decision selected.
C26_StepsInFixedOrder ==
    [][\A i \in Slots :
          LET q == reqs[i]
              n == reqs'[i]
          IN  /\ StepRank(n.pc) >= StepRank(q.pc)
              /\ n.calls # q.calls =>
                    /\ q.pc = "forward" /\ q.backend # "none"
                    /\ q.calls = <<>> /\ n.calls = <<q.backend>>
                    /\ n.backend = q.backend
              /\ (q.pc = "idle" /\ n.pc # "idle") =>
                    /\ n.calls = <<>>
                    /\ IF n.method = "OPTIONS"
                         THEN n.handler = "cors" /\ n.pc = "done" /\ n.backend = "none"
                       ELSE IF n.path = HealthPath
                         THEN n.handler = "health" /\ n.pc = "done" /\ n.backend = "none"
                       ELSE IF StartsWith(n.path, EventsPrefix)
                         THEN n.pc = "forward" /\ n.backend = "events"
                       ELSE IF StartsWith(n.path, MoviesPrefix)
                         THEN n.pc = "route" /\ n.backend = "none"
                       ELSE n.pc = "forward" /\ n.backend = "monolith"
              /\ (q.pc = "route" /\ n.pc # "route") =>
                    /\ n.pc = "forward" /\ n.calls = <<>>
                    /\ n.backend \in {"movies", "monolith"}
              /\ q.pc = "forward" => n.backend = q.backend]_vars

\* a movies request that drew the monolith and was then answered by it
C26_Witness ==
    \E i \in Slots :
        /\ reqs[i].pc = "done" /\ reqs[i].drew
        /\ StartsWith(reqs[i].path, MoviesPrefix)
        /\ reqs[i].backend = "monolith" /\ reqs[i].calls = <<"monolith">>
        /\ reqs[i].conn = "ok" /\ reqs[i].handler = "proxy"

\* C27: the random source is advanced only by non-OPTIONS movies requests
\* under gradual migration, and by exactly one draw for each: the
\* generator has advanced by as many draws as such requests have drawn, a
\* decided one has drawn, and no health, OPTIONS, events or default
\* request, nor any request without gradual migration, has drawn.
C27_OnlyMoviesDrawsAdvance ==
    /\ rngDraws = Cardinality({ i \in Slots : reqs[i].drew })
    /\ \A i \in Slots :
          /\ reqs[i].drew => DrawsByRule(reqs[i], config)
          /\ (DrawsByRule(reqs[i], config) /\ reqs[i].pc \in {"forward", "done"})
                => reqs[i].drew

\* what the code keeps of C27: only such requests draw, each once, and the
\* generator never advances by more than the draws made
OnlyMoviesRequestsDraw ==
    /\ rngDraws <= Cardinality({ i \in Slots : reqs[i].drew })
    /\ \A i \in Slots :
          /\ reqs[i].drew => DrawsByRule(reqs[i], config)
          /\ (DrawsByRule(reqs[i], config) /\ reqs[i].pc \in {"forward", "done"})
                => reqs[i].drew

\* C28: EventService.Close terminates: once it has cancelled the service
\* context every consumer goroutine exits, whatever it was doing, the wait
\* on the wait group returns and Close finishes; the producers and readers
\* are closed only after all three consumers have exited.
C28_CloseTerminates ==
    /\ (esMain = "closing") ~> (esMain = "closed")
    /\ [](esMain = "closed" =>
            /\ wg = 0
            /\ \A t \in Topics : consumers[t].pc = "exited")
    /\ [](esMain = "closing" => esCtx = "cancelled")

\* Close has finished; one consumer had read every message of its topic,
\* one had logged a failed read
C28_Witness ==
    /\ esMain = "closed"
    /\ \E t \in Topics :
          consumers[t].offset > 0 /\ consumers[t].offset = Len(topics[t])
    /\ \E t \in Topics : consumers[t].readErrors > 0
    /\ \A t \in Topics : consumers[t].pc = "exited"

====
